---- MODULE Spec2Model ----
(***************************************************************************)
(* Model of the BHR file-based router (src/src/lib/file-router.ts) and of  *)
(* the route utilities (src/src/lib/route-utils.ts).                       *)
(*                                                                         *)
(* Specifications: Spec, SpecTree, SpecBrokenTree and SpecMiddlewareTree   *)
(* (the server on four directory trees), SpecRescan (scan() called again), *)
(* SpecMatcher (RouteMatcher alone: addRoute and match), SpecMatchOnly     *)
(* (match calls on a filled RouteMatcher) and SpecConverters (the file     *)
(* path converters alone).                                                 *)
(*                                                                         *)
(* Strings are sequences of one-character strings, so that the regular     *)
(* expressions of the source are modelled by what they do to the text.     *)
(***************************************************************************)
EXTENDS Integers, Sequences, FiniteSets, TLC

(***************************************************************************)
(* Bounds of the model.                                                    *)
(***************************************************************************)
\* number of files the discovery walk finds in one run
MaxFiles == 3
\* number of scan() cycles run on one router
MaxCycles == 2
\* number of routes added to one RouteMatcher
MaxMatcherRoutes == 1
\* number of segments of a path given to RouteMatcher.addRoute
MaxSegments == 3
\* number of segments of a path given to RouteMatcher.match
MaxRequestSegments == 3
\* number of directories above the file of a path given to the converters
MaxDirs == 2
\* number of files found by a scan of the second directory tree
MaxTreeFiles == 4
\* number of files found by a scan of the directory tree with broken files
MaxBrokenTreeFiles == 3
\* number of files found by a scan of the directory tree with middleware files
MaxMiddlewareTreeFiles == 3
\* number of routes of a RouteMatcher that only serves match calls
MaxTableRoutes == 2

(***************************************************************************)
(* Text helpers (String.prototype methods used by the source).             *)
(***************************************************************************)
StartsWith(s, t) ==
  /\ Len(t) <= Len(s)
  /\ SubSeq(s, 1, Len(t)) = t

EndsWith(s, t) ==
  /\ Len(t) <= Len(s)
  /\ SubSeq(s, Len(s) - Len(t) + 1, Len(s)) = t

\* s.includes(t)
Includes(s, t) ==
  \E i \in 1..(Len(s) - Len(t) + 1) : SubSeq(s, i, i + Len(t) - 1) = t

\* s.replace(/t$/, "")
DropSuffix(s, t) ==
  IF EndsWith(s, t) THEN SubSeq(s, 1, Len(s) - Len(t)) ELSE s

\* index of the first element of s at or after position i that equals c, 0 if none
RECURSIVE IndexFrom(_, _, _)
IndexFrom(s, c, i) ==
  IF i > Len(s) THEN 0
  ELSE IF s[i] = c THEN i
  ELSE IndexFrom(s, c, i + 1)

\* s.lastIndexOf(c), 1-based, 0 if none
RECURSIVE LastIndexOf(_, _, _)
LastIndexOf(s, c, i) ==
  IF i < 1 THEN 0
  ELSE IF s[i] = c THEN i
  ELSE LastIndexOf(s, c, i - 1)

\* number of elements of s that belong to the set cs
RECURSIVE CountIn(_, _)
CountIn(s, cs) ==
  IF s = <<>> THEN 0
  ELSE (IF Head(s) \in cs THEN 1 ELSE 0) + CountIn(Tail(s), cs)

\* s.split(c): the pieces between the occurrences of c, empty pieces kept
RECURSIVE SplitFrom(_, _, _, _)
SplitFrom(s, c, i, cur) ==
  IF i > Len(s) THEN <<cur>>
  ELSE IF s[i] = c THEN <<cur>> \o SplitFrom(s, c, i + 1, <<>>)
  ELSE SplitFrom(s, c, i + 1, Append(cur, s[i]))

Split(s, c) == SplitFrom(s, c, 1, <<>>)

\* list.filter(Boolean) on a list of strings
RECURSIVE FilterNonEmpty(_)
FilterNonEmpty(l) ==
  IF l = <<>> THEN <<>>
  ELSE (IF Head(l) = <<>> THEN <<>> ELSE <<Head(l)>>) \o FilterNonEmpty(Tail(l))

\* s.replace(/c/g, t) for a one-character pattern c
RECURSIVE ReplaceChar(_, _, _)
ReplaceChar(s, c, t) ==
  IF s = <<>> THEN <<>>
  ELSE (IF Head(s) = c THEN t ELSE <<Head(s)>>) \o ReplaceChar(Tail(s), c, t)

(***************************************************************************)
(* s.replace(/open([^close]+)close/g, marker ++ (keep ? "$1" : "")):       *)
(* the shape shared by the bracket and the group expressions of            *)
(* convertFilePathToRoute.  A match at position i needs the text `open`,   *)
(* then at least one character that is not `close`, then `close`.          *)
(***************************************************************************)
RECURSIVE ReplaceDelimited(_, _, _, _, _, _)
ReplaceDelimited(s, i, open, close, marker, keep) ==
  IF i > Len(s) THEN <<>>
  ELSE LET b == i + Len(open)
           j == IndexFrom(s, close, b)
       IN IF /\ b - 1 <= Len(s)
             /\ SubSeq(s, i, b - 1) = open
             /\ j >= b + 1
          THEN marker \o (IF keep THEN SubSeq(s, b, j - 1) ELSE <<>>)
                      \o ReplaceDelimited(s, j + 1, open, close, marker, keep)
          ELSE <<s[i]>> \o ReplaceDelimited(s, i + 1, open, close, marker, keep)

\* .replace(/\.(ts|tsx|js|jsx)$/, "")
StripExtension(s) ==
  IF EndsWith(s, <<".", "t", "s">>) THEN DropSuffix(s, <<".", "t", "s">>)
  ELSE IF EndsWith(s, <<".", "t", "s", "x">>) THEN DropSuffix(s, <<".", "t", "s", "x">>)
  ELSE IF EndsWith(s, <<".", "j", "s">>) THEN DropSuffix(s, <<".", "j", "s">>)
  ELSE IF EndsWith(s, <<".", "j", "s", "x">>) THEN DropSuffix(s, <<".", "j", "s", "x">>)
  ELSE s

(***************************************************************************)
(* BHRFileRouter helpers.                                                  *)
(***************************************************************************)
convertFilePathToRoute(relativePath) ==
  LET r1 == ReplaceChar(relativePath, "\\", <<"/">>)
      r2 == StripExtension(r1)
      r3 == DropSuffix(r2, <<"/", "p", "a", "g", "e">>)
      r4 == DropSuffix(r3, <<"/", "r", "o", "u", "t", "e">>)
      r5 == DropSuffix(r4, <<"/", "i", "n", "d", "e", "x">>)
      r6 == ReplaceDelimited(r5, 1, <<"[">>, "]", <<":">>, TRUE)
      r7 == ReplaceDelimited(r6, 1, <<"[", ".", ".", ".">>, "]", <<"*">>, TRUE)
      r8 == ReplaceDelimited(r7, 1, <<"/", "(">>, ")", <<>>, FALSE)
      r9 == IF StartsWith(r8, <<"/">>) THEN r8 ELSE <<"/">> \o r8
  IN IF r8 = <<"p", "a", "g", "e">> \/ r8 = <<"/", "p", "a", "g", "e">> THEN <<"/">>
     ELSE IF r9 = <<"/">> THEN <<"/">>
     ELSE DropSuffix(r9, <<"/">>)

\* routePath.matchAll(/:([^\/]+)/g): the captured names, left to right
RECURSIVE extractParamsFrom(_, _)
extractParamsFrom(routePath, i) ==
  LET c == IndexFrom(routePath, ":", i)
      n == IndexFrom(routePath, "/", c + 1)
      e == IF n = 0 THEN Len(routePath) ELSE n - 1
  IN IF c = 0 THEN <<>>
     ELSE IF e <= c THEN extractParamsFrom(routePath, c + 1)
     ELSE <<SubSeq(routePath, c + 1, e)>> \o extractParamsFrom(routePath, e + 1)

extractParams(routePath) == extractParamsFrom(routePath, 1)

isDynamicRoute(routePath) ==
  Includes(routePath, <<":">>) \/ Includes(routePath, <<"*">>)

PriorityBase == 1000
DynamicPenalty == 100
WildcardPenalty == 200
SegmentBonus == 10

calculatePriorityWrongSign(routePath) ==
  PriorityBase + CountIn(routePath, {":", "*"}) * DynamicPenalty
               + Len(Split(routePath, "/")) * SegmentBonus

calculatePriority(routePath) ==
  PriorityBase - CountIn(routePath, {":", "*"}) * DynamicPenalty
               + Len(Split(routePath, "/")) * SegmentBonus

\* calculateRoutePriority of route-utils.ts
calculateRoutePriority(route) ==
  PriorityBase + Len(FilterNonEmpty(Split(route, "/"))) * SegmentBonus
               - CountIn(route, {":"}) * DynamicPenalty
               - CountIn(route, {"*"}) * WildcardPenalty

(***************************************************************************)
(* parseFilePath and filePathToRoute (route-utils.ts).  A RouteSegment is  *)
(* a record; the segments of type "static" and "group" have no param       *)
(* field, as in the source.                                                *)
(***************************************************************************)
\* .replace(/\/(page|route|layout)$/, "")
StripFileRole(s) ==
  IF EndsWith(s, <<"/", "p", "a", "g", "e">>) THEN DropSuffix(s, <<"/", "p", "a", "g", "e">>)
  ELSE IF EndsWith(s, <<"/", "r", "o", "u", "t", "e">>)
       THEN DropSuffix(s, <<"/", "r", "o", "u", "t", "e">>)
  ELSE IF EndsWith(s, <<"/", "l", "a", "y", "o", "u", "t">>)
       THEN DropSuffix(s, <<"/", "l", "a", "y", "o", "u", "t">>)
  ELSE s

\* segment.slice(1, -1)
Inner(segment) == SubSeq(segment, 2, Len(segment) - 1)

\* the body of the loop of parseFilePath: the RouteSegment pushed for one path segment
ParseSegment(segment) ==
  IF StartsWith(segment, <<"(">>) /\ EndsWith(segment, <<")">>)
  THEN [type |-> "group", value |-> Inner(segment)]
  ELSE IF StartsWith(segment, <<"[">>) /\ EndsWith(segment, <<"]">>)
  THEN LET paramContent == Inner(segment)
       IN IF StartsWith(paramContent, <<".", ".", ".">>)
          THEN [type |-> "wildcard", value |-> segment,
                param |-> SubSeq(paramContent, 4, Len(paramContent))]
          ELSE [type |-> "dynamic", value |-> segment, param |-> paramContent]
  ELSE [type |-> "static", value |-> segment]

RECURSIVE ParseSegments(_)
ParseSegments(pathSegments) ==
  IF pathSegments = <<>> THEN <<>>
  ELSE <<ParseSegment(Head(pathSegments))>> \o ParseSegments(Tail(pathSegments))

\* the params pushed by the loop of parseFilePath, in the order of the segments
RECURSIVE ParamsOfSegments(_)
ParamsOfSegments(segments) ==
  IF segments = <<>> THEN <<>>
  ELSE (IF Head(segments).type \in {"dynamic", "wildcard"}
        THEN <<Head(segments).param>> ELSE <<>>)
       \o ParamsOfSegments(Tail(segments))

\* parseFilePath: the wildcard branch sets isWildcard and isDynamic
parseFilePathWildcardNotDynamic(filePath) ==
  LET cleanPath == StripFileRole(StripExtension(ReplaceChar(filePath, "\\", <<"/">>)))
      pathSegments == FilterNonEmpty(Split(cleanPath, "/"))
      segments == ParseSegments(pathSegments)
  IN [segments |-> segments,
      params |-> ParamsOfSegments(segments),
      isDynamic |-> \E i \in 1..Len(segments) : segments[i].type = "dynamic",
      isWildcard |-> \E i \in 1..Len(segments) : segments[i].type = "wildcard"]

parseFilePath(filePath) ==
  LET cleanPath == StripFileRole(StripExtension(ReplaceChar(filePath, "\\", <<"/">>)))
      pathSegments == FilterNonEmpty(Split(cleanPath, "/"))
      segments == ParseSegments(pathSegments)
  IN [segments |-> segments,
      params |-> ParamsOfSegments(segments),
      isDynamic |-> \E i \in 1..Len(segments) : segments[i].type \in {"dynamic", "wildcard"},
      isWildcard |-> \E i \in 1..Len(segments) : segments[i].type = "wildcard"]

\* the map callback of filePathToRoute, applied to the segments that are not groups
RECURSIVE RouteSegmentsOf(_)
RouteSegmentsOf(segments) ==
  IF segments = <<>> THEN <<>>
  ELSE LET s == Head(segments)
       IN (CASE s.type = "group" -> <<>>
             [] s.type = "dynamic" -> <<<<":">> \o s.param>>
             [] s.type = "wildcard" -> <<<<"*">> \o s.param>>
             [] OTHER -> <<s.value>>)
          \o RouteSegmentsOf(Tail(segments))

\* list.join("/")
RECURSIVE Join(_)
Join(l) ==
  IF l = <<>> THEN <<>>
  ELSE IF Len(l) = 1 THEN Head(l)
  ELSE Head(l) \o <<"/">> \o Join(Tail(l))

filePathToRoute(filePath) ==
  LET route == <<"/">> \o Join(RouteSegmentsOf(parseFilePath(filePath).segments))
  IN IF route = <<"/">> THEN <<"/">> ELSE DropSuffix(route, <<"/">>)

(***************************************************************************)
(* RouteMatcher (route-utils.ts).  addRoute rewrites the path into the     *)
(* source text of a regular expression; the two capture groups it inserts  *)
(* are kept as single elements of the text.                                *)
(***************************************************************************)
SegGroup == "([^/]+)"
AnyGroup == "(.*)"

\* last index of the run of elements different from "/" that starts at i (i - 1 if empty)
RECURSIVE RunEnd(_, _)
RunEnd(s, i) ==
  IF i > Len(s) \/ s[i] = "/" THEN i - 1 ELSE RunEnd(s, i + 1)

\* .replace(/:([^\/]+)/g, (_, param) => { params.push(param); return "([^/]+)" })
RECURSIVE ColonPass(_, _)
ColonPass(s, i) ==
  IF i > Len(s) THEN [out |-> <<>>, params |-> <<>>]
  ELSE IF s[i] = ":" /\ RunEnd(s, i + 1) > i
       THEN LET e == RunEnd(s, i + 1)
                rest == ColonPass(s, e + 1)
            IN [out |-> <<SegGroup>> \o rest.out,
                params |-> <<SubSeq(s, i + 1, e)>> \o rest.params]
       ELSE LET rest == ColonPass(s, i + 1)
            IN [out |-> <<s[i]>> \o rest.out, params |-> rest.params]

\* .replace(/\*([^\/]*)/g, (_, param) => { if (param) params.push(param); return "(.*)" })
\* valid is FALSE when the capture runs into the text of a group inserted by
\* the first pass: the text left behind is then not a regular expression and
\* new RegExp throws.
RECURSIVE StarPass(_, _)
StarPass(s, i) ==
  IF i > Len(s) THEN [out |-> <<>>, params |-> <<>>, valid |-> TRUE]
  ELSE IF s[i] = "*"
       THEN LET e == RunEnd(s, i + 1)
                cap == SubSeq(s, i + 1, e)
                rest == StarPass(s, e + 1)
            IN [out |-> <<AnyGroup>> \o rest.out,
                params |-> (IF cap = <<>> THEN <<>> ELSE <<cap>>) \o rest.params,
                valid |-> rest.valid /\ \A k \in 1..Len(cap) : cap[k] # SegGroup]
       ELSE LET rest == StarPass(s, i + 1)
            IN [out |-> <<s[i]>> \o rest.out, params |-> rest.params,
                valid |-> rest.valid]

\* new RegExp(`^${pattern}$`): the atoms of the expression.  A backslash
\* escapes the next character, a dot stands for any character.
RECURSIVE RegExpAtoms(_, _)
RegExpAtoms(src, i) ==
  IF i > Len(src) THEN <<>>
  ELSE IF src[i] = "\\" /\ i < Len(src)
       THEN <<[t |-> "lit", c |-> src[i + 1]]>> \o RegExpAtoms(src, i + 2)
  ELSE IF src[i] = SegGroup THEN <<[t |-> "seg", c |-> ""]>> \o RegExpAtoms(src, i + 1)
  ELSE IF src[i] = AnyGroup THEN <<[t |-> "any", c |-> ""]>> \o RegExpAtoms(src, i + 1)
  ELSE IF src[i] = "." THEN <<[t |-> "dot", c |-> ""]>> \o RegExpAtoms(src, i + 1)
  ELSE <<[t |-> "lit", c |-> src[i]]>> \o RegExpAtoms(src, i + 1)

\* the entry addRoute stores for a path
CompileRoute(path) ==
  LET escaped == ReplaceChar(path, "/", <<"\\", "/">>)
      p1 == ColonPass(escaped, 1)
      p2 == StarPass(p1.out, 1)
  IN [path |-> path,
      pattern |-> RegExpAtoms(p2.out, 1),
      params |-> p1.params \o p2.params,
      valid |-> p2.valid]

\* path.match(pattern) for an anchored expression: backtracking, greedy groups
RECURSIVE MatchAt(_, _, _, _), GroupTry(_, _, _, _, _, _)
MatchAt(atoms, k, s, j) ==
  IF k > Len(atoms) THEN [ok |-> j = Len(s) + 1, groups |-> <<>>]
  ELSE LET a == atoms[k]
       IN CASE a.t = "lit" ->
                 IF j <= Len(s) /\ s[j] = a.c THEN MatchAt(atoms, k + 1, s, j + 1)
                 ELSE [ok |-> FALSE, groups |-> <<>>]
            [] a.t = "dot" ->
                 IF j <= Len(s) THEN MatchAt(atoms, k + 1, s, j + 1)
                 ELSE [ok |-> FALSE, groups |-> <<>>]
            [] a.t = "seg" -> GroupTry(atoms, k, s, j, RunEnd(s, j) - j + 1, 1)
            [] a.t = "any" -> GroupTry(atoms, k, s, j, Len(s) - j + 1, 0)

GroupTry(atoms, k, s, j, len, min) ==
  IF len < min THEN [ok |-> FALSE, groups |-> <<>>]
  ELSE LET r == MatchAt(atoms, k + 1, s, j + len)
       IN IF r.ok THEN [ok |-> TRUE, groups |-> <<SubSeq(s, j, j + len - 1)>> \o r.groups]
          ELSE GroupTry(atoms, k, s, j, len - 1, min)

RegExpMatch(atoms, s) == MatchAt(atoms, 1, s, 1)

\* the params loop of RouteMatcher.match: params[i] is bound to group i + 1,
\* as a list when the route path contains "*" followed by the name
StrVal(v) == [t |-> "string", v |-> v]
ListVal(v) == [t |-> "list", v |-> v]

RECURSIVE BindParams(_, _, _, _)
BindParams(routePath, params, groups, n) ==
  IF n = 0 THEN <<>>
  ELSE LET param == params[n]
           value == groups[n]
           bound == IF Includes(routePath, <<"*">> \o param)
                    THEN ListVal(FilterNonEmpty(Split(value, "/")))
                    ELSE StrVal(value)
       IN (param :> bound) @@ BindParams(routePath, params, groups, n - 1)

\* RouteMatcher.match over the entries in insertion order
RECURSIVE MatcherMatch(_, _, _)
MatcherMatch(entries, i, path) ==
  IF i > Len(entries) THEN [found |-> FALSE, route |-> <<>>, params |-> <<>>]
  ELSE LET m == RegExpMatch(entries[i].pattern, path)
       IN IF m.ok
          THEN [found |-> TRUE, route |-> entries[i].path,
                params |-> BindParams(entries[i].path, entries[i].params,
                                      m.groups, Len(entries[i].params))]
          ELSE MatcherMatch(entries, i + 1, path)

MapSetKeepFirst(entries, keys, key, value) ==
  IF \E i \in 1..Len(entries) : keys[i] = key
  THEN entries
  ELSE Append(entries, value)

\* Map.set on a map given as its entries and their keys, in insertion order:
\* a new key is appended, an existing key keeps its position
MapSet(entries, keys, key, value) ==
  IF \E i \in 1..Len(entries) : keys[i] = key
  THEN [i \in 1..Len(entries) |-> IF keys[i] = key THEN value ELSE entries[i]]
  ELSE Append(entries, value)

(***************************************************************************)
(* The files the discovery walk can find: the directory they are under,    *)
(* their path relative to it, and the names the loaded module exports.     *)
(***************************************************************************)
FileTable ==
  <<[type |-> "api", exports |-> {"GET"},
      rel |-> <<"u", "/", "n", "/", "r", "o", "u", "t", "e", ".", "t", "s">>],
     [type |-> "api", exports |-> {"GET", "POST"},
      rel |-> <<"u", "/", "[", "i", "]", "/", "r", "o", "u", "t", "e", ".", "t", "s">>],
     [type |-> "api", exports |-> {"GET"},
      rel |-> <<"b", "/", "r", "o", "u", "t", "e", ".", "t", "s">>],
     [type |-> "api", exports |-> {"GET"},
      rel |-> <<"f", "/", "[", ".", ".", ".", "s", "]", "/", "r", "o", "u", "t", "e", ".", "t", "s">>],
     [type |-> "api", exports |-> {"GET"},
      rel |-> <<"m", "i", "d", "d", "l", "e", "w", "a", "r", "e", "/", "r", "o", "u", "t", "e", ".", "t", "s">>],
     [type |-> "pages", exports |-> {"default"},
      rel |-> <<"b", "/", "p", "a", "g", "e", ".", "t", "s", "x">>],
     [type |-> "pages", exports |-> {"default"},
      rel |-> <<"p", "a", "g", "e", ".", "t", "s", "x">>],
     [type |-> "pages", exports |-> {"default"},
      rel |-> <<"m", "i", "d", "d", "l", "e", "w", "a", "r", "e", ".", "t", "s">>],
     [type |-> "api", exports |-> {"default"},
      rel |-> <<"m", "i", "d", "d", "l", "e", "w", "a", "r", "e", ".", "t", "s">>],
     [type |-> "api", exports |-> {"default"},
      rel |-> <<"m", "i", "d", "d", "l", "e", "w", "a", "r", "e", "/",
                "m", "i", "d", "d", "l", "e", "w", "a", "r", "e", ".", "t", "s">>],
     [type |-> "api", exports |-> {"default"},
      rel |-> <<"m", "i", "d", "d", "l", "e", "w", "a", "r", "e", ".", "t", "s", "x">>],
     [type |-> "pages", exports |-> {"default"},
      rel |-> <<"m", "i", "d", "d", "l", "e", "w", "a", "r", "e", "/",
                "m", "i", "d", "d", "l", "e", "w", "a", "r", "e", "/",
                "p", "a", "g", "e", ".", "t", "s", "x">>],
     [type |-> "pages", exports |-> {"default"},
      rel |-> <<"m", "i", "d", "d", "l", "e", "w", "a", "r", "e", "s", "/",
                "p", "a", "g", "e", ".", "t", "s", "x">>],
     [type |-> "api", exports |-> {"GET"},
      rel |-> <<"f", "/", "[", "i", "]", "/", "r", "o", "u", "t", "e", ".", "t", "s">>],
     [type |-> "api", exports |-> {"GET"},
      rel |-> <<"b", "/", "r", "o", "u", "t", "e", ".", "j", "s">>],
     [type |-> "pages", exports |-> {"default"},
      rel |-> <<"p", "a", "g", "e", ".", "j", "s", "x">>],
     [type |-> "api", exports |-> {"default"},
      rel |-> <<"m", "i", "d", "d", "l", "e", "w", "a", "r", "e", ".", "j", "s">>],
     [type |-> "api", exports |-> {"GET", "POST"},
      rel |-> <<"m", "i", "d", "d", "l", "e", "w", "a", "r", "e", "/", "r", "o", "u", "t", "e", ".", "j", "s">>]>>

\* the files whose import fails (await import(filePath) throws)
ThrowingImports == {15, 16, 17}

\* the files of the first directory tree, and those of the other trees
FileIds == 1..8
TreeFileIds == {4, 9, 10, 11, 12, 13, 14}
BrokenTreeFileIds == {2, 3, 6, 15, 16, 17}
MiddlewareTreeFileIds == {3, 9, 13, 18}

\* the requests sent to the server
Requests ==
  {[method |-> "GET", path |-> <<"/", "u", "/", "n">>],
   [method |-> "GET", path |-> <<"/", "u", "/", "7">>],
   [method |-> "GET", path |-> <<"/", "b">>],
   [method |-> "GET", path |-> <<"/">>],
   [method |-> "GET", path |-> <<"/", "f", "/", "x">>],
   [method |-> "GET", path |-> <<"/", "m", "i", "d", "d", "l", "e", "w", "a", "r", "e">>],
   [method |-> "POST", path |-> <<"/", "u", "/", "7">>],
   [method |-> "POST", path |-> <<"/", "b">>],
   [method |-> "POST", path |-> <<"/", "m", "i", "d", "d", "l", "e", "w", "a", "r", "e">>]}

\* DEFAULT_OPTIONS.extensions
Extensions ==
  {<<".", "t", "s">>, <<".", "t", "s", "x">>, <<".", "j", "s">>, <<".", "j", "s", "x">>}

\* the methods array of processApiRoute
HttpMethods == <<"GET", "POST", "PUT", "DELETE", "PATCH">>

\* filePath.substring(filePath.lastIndexOf("."))
getFileExtension(filePath) ==
  LET k == LastIndexOf(filePath, ".", Len(filePath))
  IN SubSeq(filePath, IF k = 0 THEN 1 ELSE k, Len(filePath))

getFileName(filePath) ==
  LET b == LastIndexOf(filePath, "/", Len(filePath))
      baseName == SubSeq(filePath, b + 1, Len(filePath))
      d == LastIndexOf(baseName, ".", Len(baseName))
  IN SubSeq(baseName, 1, d - 1)

(***************************************************************************)
(* Discovery order.  scan() walks the api directory, then the pages        *)
(* directory; scanDirectory visits the entries of a directory in the order *)
(* readdir returns them and descends into a sub-directory when it meets    *)
(* it, so the files below one directory are visited together.              *)
(***************************************************************************)
DirOf(f) ==
  LET parts == Split(FileTable[f].rel, "/")
  IN <<FileTable[f].type>> \o SubSeq(parts, 1, Len(parts) - 1)

RECURSIVE CommonPrefixLen(_, _)
CommonPrefixLen(a, b) ==
  IF a = <<>> \/ b = <<>> \/ Head(a) # Head(b) THEN 0
  ELSE 1 + CommonPrefixLen(Tail(a), Tail(b))

IsWalkOrder(o) ==
  /\ \A i, j \in DOMAIN o : i # j => o[i] # o[j]
  /\ \A i, j \in DOMAIN o :
       i < j => ~(FileTable[o[i]].type = "pages" /\ FileTable[o[j]].type = "api")
  /\ \A i, j, k \in DOMAIN o :
       (i < j /\ j < k) =>
         /\ CommonPrefixLen(DirOf(o[i]), DirOf(o[k])) <= CommonPrefixLen(DirOf(o[i]), DirOf(o[j]))
         /\ CommonPrefixLen(DirOf(o[i]), DirOf(o[k])) <= CommonPrefixLen(DirOf(o[j]), DirOf(o[k]))

WalkOrders ==
  {o \in UNION {[1..n -> FileIds] : n \in 0..MaxFiles} : IsWalkOrder(o)}

TreeWalkOrders ==
  {o \in UNION {[1..n -> TreeFileIds] : n \in 0..MaxTreeFiles} : IsWalkOrder(o)}

BrokenTreeWalkOrders ==
  {o \in UNION {[1..n -> BrokenTreeFileIds] : n \in 0..MaxBrokenTreeFiles} : IsWalkOrder(o)}

MiddlewareTreeWalkOrders ==
  {o \in UNION {[1..n -> MiddlewareTreeFileIds] : n \in 0..MaxMiddlewareTreeFiles} :
     IsWalkOrder(o)}

(***************************************************************************)
(* BHRFileRouter: the routes and middleware maps (in insertion order), the *)
(* Hono application the routes are registered in, and the progress of      *)
(* scan().  RouteMatcher: its routes map and the result of its last match. *)
(***************************************************************************)
VARIABLES
  order,         \* the files in the order the walk finds them
  pc,            \* "idle" before scan(), "scanning", "done" after it
  idx,           \* position of scan() in order
  cycles,        \* number of completed scan() calls
  routes,        \* BHRFileRouter.routes
  middleware,    \* BHRFileRouter.middleware
  sortedRoutes,  \* the sortedRoutes of the last completed scan()
  app,           \* the registrations made on the Hono application
  lastMatch,     \* the last request served and its outcome
  matcherRoutes, \* RouteMatcher.routes
  matcherResult, \* the last RouteMatcher.match call and its result
  filePathIn,    \* the file path given to the converters
  applied,       \* the converters applied to filePathIn so far
  parsedRoute,   \* the result of parseFilePath(filePathIn)
  routeOut,      \* the result of filePathToRoute(filePathIn)
  routePathOut,  \* the result of convertFilePathToRoute(filePathIn)
  probe          \* a match against the pattern routeOut: the parameter names
                 \* addRoute stored for it, and the result of match

vars == <<order, pc, idx, cycles, routes, middleware, sortedRoutes, app,
          lastMatch, matcherRoutes, matcherResult,
          filePathIn, applied, parsedRoute, routeOut, routePathOut, probe>>

routerVars == <<order, pc, idx, cycles, routes, middleware, sortedRoutes, app, lastMatch>>
matcherVars == <<matcherRoutes, matcherResult>>
converterVars == <<filePathIn, applied, parsedRoute, routeOut, routePathOut, probe>>

RouteKey(r) == <<r.method, r.path>>
MiddlewareKey(m) == m.path

getMiddlewareForPathBySegment(mw, routePath) ==
  LET RECURSIVE Collect(_)
      Collect(i) ==
        IF i > Len(mw) THEN <<>>
        ELSE (IF routePath = mw[i].path \/ StartsWith(routePath, mw[i].path \o <<"/">>)
              THEN mw[i].list ELSE <<>>)
             \o Collect(i + 1)
  IN Collect(1)

getMiddlewareForPath(mw, routePath) ==
  LET RECURSIVE Collect(_)
      Collect(i) ==
        IF i > Len(mw) THEN <<>>
        ELSE (IF StartsWith(routePath, mw[i].path) THEN mw[i].list ELSE <<>>)
             \o Collect(i + 1)
  IN Collect(1)

\* the RouteInfo built by processApiRoute and processPageRoute
RouteInfoOf(f, method, export, routePath, mw) ==
  [path |-> routePath,
   filePath |-> f,
   method |-> method,
   handler |-> <<f, export>>,
   middleware |-> getMiddlewareForPath(mw, routePath),
   params |-> extractParams(routePath),
   isDynamic |-> isDynamicRoute(routePath),
   priority |-> calculatePriority(routePath)]

\* this.routes.set(key, routeInfo)
RoutesSet(rs, routeInfo) ==
  MapSet(rs, [i \in 1..Len(rs) |-> RouteKey(rs[i])], RouteKey(routeInfo), routeInfo)

\* processApiRoute.  The import is inside the try block: when it throws, the
\* error is logged and nothing is set.
processApiRouteNoThrow(rs, mw, f) ==
  LET routePath == convertFilePathToRoute(FileTable[f].rel)
      RECURSIVE Loop(_, _)
      Loop(acc, i) ==
        IF i > Len(HttpMethods) THEN acc
        ELSE IF HttpMethods[i] \in FileTable[f].exports
             THEN Loop(RoutesSet(acc, RouteInfoOf(f, HttpMethods[i], HttpMethods[i],
                                                  routePath, mw)), i + 1)
             ELSE Loop(acc, i + 1)
  IN Loop(rs, 1)

processApiRoute(rs, mw, f) ==
  LET routePath == convertFilePathToRoute(FileTable[f].rel)
      RECURSIVE Loop(_, _)
      Loop(acc, i) ==
        IF i > Len(HttpMethods) THEN acc
        ELSE IF HttpMethods[i] \in FileTable[f].exports
             THEN Loop(RoutesSet(acc, RouteInfoOf(f, HttpMethods[i], HttpMethods[i],
                                                  routePath, mw)), i + 1)
             ELSE Loop(acc, i + 1)
  IN IF f \in ThrowingImports THEN rs ELSE Loop(rs, 1)

processPageRoute(rs, mw, f) ==
  LET routePath == convertFilePathToRoute(FileTable[f].rel)
  IN IF f \notin ThrowingImports /\ "default" \in FileTable[f].exports
     THEN RoutesSet(rs, RouteInfoOf(f, "GET", "default", routePath, mw))
     ELSE rs

processMiddleware(mw, f) ==
  LET middlewarePath == convertFilePathToRoute(FileTable[f].rel)
      existing == IF \E i \in 1..Len(mw) : mw[i].path = middlewarePath
                  THEN (CHOOSE e \in {mw[i] : i \in 1..Len(mw)} : e.path = middlewarePath).list
                  ELSE <<>>
  IN IF f \notin ThrowingImports /\ "default" \in FileTable[f].exports
     THEN MapSet(mw, [i \in 1..Len(mw) |-> MiddlewareKey(mw[i])], middlewarePath,
                 [path |-> middlewarePath, list |-> Append(existing, f)])
     ELSE mw

\* processFile: the state of the two maps after the file is processed
processFile(rs, mw, f) ==
  LET fileName == getFileName(FileTable[f].rel)
  IN IF getFileExtension(FileTable[f].rel) \notin Extensions
     THEN [routes |-> rs, middleware |-> mw]
     ELSE CASE fileName = <<"r", "o", "u", "t", "e">> ->
                 [routes |-> processApiRoute(rs, mw, f), middleware |-> mw]
            [] fileName = <<"p", "a", "g", "e">> ->
                 [routes |-> processPageRoute(rs, mw, f), middleware |-> mw]
            [] fileName \in {<<"_", "m", "i", "d", "d", "l", "e", "w", "a", "r", "e">>,
                             <<"m", "i", "d", "d", "l", "e", "w", "a", "r", "e">>} ->
                 [routes |-> rs, middleware |-> processMiddleware(mw, f)]
            [] OTHER -> [routes |-> rs, middleware |-> mw]

\* the comparator of the sort in scan()
ComparePriorityAscending(a, b) == a.priority - b.priority

ComparePriority(a, b) == b.priority - a.priority

\* Array.prototype.sort with the comparator of scan(); the sort is stable
RECURSIVE InsertSorted(_, _)
InsertSorted(sorted, x) ==
  IF sorted = <<>> THEN <<x>>
  ELSE LET last == sorted[Len(sorted)]
       IN IF ComparePriority(last, x) <= 0 THEN Append(sorted, x)
          ELSE Append(InsertSorted(SubSeq(sorted, 1, Len(sorted) - 1), x), last)

RECURSIVE SortRoutes(_)
SortRoutes(rs) ==
  IF rs = <<>> THEN <<>>
  ELSE InsertSorted(SortRoutes(SubSeq(rs, 1, Len(rs) - 1)), rs[Len(rs)])

\* registerRoutes: the app.use and app.<method> calls, in order
RECURSIVE registerRoutes(_)
registerRoutes(rs) ==
  IF rs = <<>> THEN <<>>
  ELSE LET route == Head(rs)
       IN (IF Len(route.middleware) > 0 THEN <<[kind |-> "use", route |-> route]>> ELSE <<>>)
          \o (IF route.method \in {"GET", "POST", "PUT", "DELETE", "PATCH"}
              THEN <<[kind |-> "route", route |-> route]>> ELSE <<>>)
          \o registerRoutes(Tail(rs))

\* whether the pattern of a registered path accepts a request path
PathMatches(routePath, path) ==
  RegExpMatch(CompileRoute(routePath).pattern, path).ok

NoRoute == [path |-> <<>>, filePath |-> 0, method |-> "", handler |-> <<0, "">>,
            middleware |-> <<>>, params |-> <<>>, isDynamic |-> FALSE, priority |-> 0]

\* app.fetch: the first handler registered for the method whose path matches
\* the route was registered with app.get, app.post, ... : it serves its method only
ServesAnyMethod(entry, method, path) ==
  /\ entry.kind = "route"
  /\ PathMatches(entry.route.path, path)

Serves(entry, method, path) ==
  /\ entry.kind = "route"
  /\ entry.route.method = method
  /\ PathMatches(entry.route.path, path)

RECURSIVE AppMatch(_, _, _, _)
AppMatch(a, i, method, path) ==
  IF i > Len(a) THEN [res |-> "NotFound", route |-> NoRoute]
  ELSE IF Serves(a[i], method, path)
       THEN [res |-> "Found", route |-> a[i].route]
       ELSE AppMatch(a, i + 1, method, path)

\* the middleware app.fetch runs for a request: app.use registers them for
\* every method, and the handlers registered for the request run in the order
\* of registration until the route handler answers
RECURSIVE AppMiddleware(_, _, _, _)
AppMiddleware(a, i, method, path) ==
  IF i > Len(a) THEN <<>>
  ELSE IF Serves(a[i], method, path) THEN <<>>
  ELSE (IF a[i].kind = "use" /\ PathMatches(a[i].route.path, path)
        THEN a[i].route.middleware ELSE <<>>)
       \o AppMiddleware(a, i + 1, method, path)

(***************************************************************************)
(* The server: createFileRouter runs scan() once; requests are served by   *)
(* app.fetch from the start, also while scan() is awaiting an import.      *)
(***************************************************************************)
NoMatch == [method |-> "", path |-> <<>>, res |-> "none", route |-> NoRoute,
            app |-> <<>>, cycles |-> 0, ran |-> <<>>]

NoMatcherResult == [path |-> <<>>, called |-> FALSE, found |-> FALSE,
                    route |-> <<>>, params |-> <<>>]

NoParsedRoute == [segments |-> <<>>, params |-> <<>>, isDynamic |-> FALSE,
                  isWildcard |-> FALSE]

NoProbe == [path |-> <<>>, threw |-> FALSE, names |-> <<>>, found |-> FALSE,
            params |-> <<>>]

\* no file path has been given to the converters
ConvertersIdle ==
  /\ filePathIn = <<>>
  /\ applied = {}
  /\ parsedRoute = NoParsedRoute
  /\ routeOut = <<>>
  /\ routePathOut = <<>>
  /\ probe = NoProbe

\* a BHRFileRouter has been constructed and scan() has not been called
RouterIdle ==
  /\ pc = "idle"
  /\ idx = 1
  /\ cycles = 0
  /\ routes = <<>>
  /\ middleware = <<>>
  /\ sortedRoutes = <<>>
  /\ app = <<>>
  /\ lastMatch = NoMatch

Init ==
  /\ order \in WalkOrders
  /\ RouterIdle
  /\ matcherRoutes = <<>>
  /\ matcherResult = NoMatcherResult
  /\ ConvertersIdle

\* createFileRouter: new BHRFileRouter(app, options); router.scan() starts
StartScan ==
  /\ pc = "idle"
  /\ pc' = "scanning"
  /\ idx' = 1
  /\ UNCHANGED <<order, cycles, routes, middleware, sortedRoutes, app, lastMatch>>
  /\ UNCHANGED matcherVars
  /\ UNCHANGED converterVars

\* one iteration of the loop of scanDirectory: processFile on the next file;
\* the application is not touched before registerRoutes
ProcessFileRegistering ==
  /\ pc = "scanning"
  /\ idx <= Len(order)
  /\ LET r == processFile(routes, middleware, order[idx])
     IN /\ routes' = r.routes
        /\ middleware' = r.middleware
        /\ app' = registerRoutes(r.routes)
  /\ idx' = idx + 1
  /\ UNCHANGED <<order, pc, cycles, sortedRoutes, lastMatch>>
  /\ UNCHANGED matcherVars
  /\ UNCHANGED converterVars

ProcessFile ==
  /\ pc = "scanning"
  /\ idx <= Len(order)
  /\ LET r == processFile(routes, middleware, order[idx])
     IN /\ routes' = r.routes
        /\ middleware' = r.middleware
  /\ idx' = idx + 1
  /\ UNCHANGED <<order, pc, cycles, sortedRoutes, app, lastMatch>>
  /\ UNCHANGED matcherVars
  /\ UNCHANGED converterVars

\* the end of scan(): sort the routes and register them
FinishScan ==
  /\ pc = "scanning"
  /\ idx > Len(order)
  /\ sortedRoutes' = SortRoutes(routes)
  /\ app' = app \o registerRoutes(SortRoutes(routes))
  /\ pc' = "done"
  /\ cycles' = cycles + 1
  /\ UNCHANGED <<order, idx, routes, middleware, lastMatch>>
  /\ UNCHANGED matcherVars
  /\ UNCHANGED converterVars

\* a request handled by app.fetch
Match ==
  /\ \E req \in Requests :
       LET m == AppMatch(app, 1, req.method, req.path)
       IN lastMatch' = [method |-> req.method, path |-> req.path, res |-> m.res,
                        route |-> m.route, app |-> app, cycles |-> cycles,
                        ran |-> AppMiddleware(app, 1, req.method, req.path)]
  /\ UNCHANGED <<order, pc, idx, cycles, routes, middleware, sortedRoutes, app>>
  /\ UNCHANGED matcherVars
  /\ UNCHANGED converterVars

Next == StartScan \/ ProcessFile \/ FinishScan \/ Match

Spec == Init /\ [][Next]_vars

(***************************************************************************)
(* The router used as a library: scan() is public and can be called again  *)
(* on the same router, over the same files.                                *)
(***************************************************************************)
Rescan ==
  /\ pc = "done"
  /\ cycles < MaxCycles
  /\ pc' = "scanning"
  /\ idx' = 1
  /\ UNCHANGED <<order, cycles, routes, middleware, sortedRoutes, app, lastMatch>>
  /\ UNCHANGED matcherVars
  /\ UNCHANGED converterVars

NextRescan == StartScan \/ ProcessFile \/ FinishScan \/ Match \/ Rescan

SpecRescan == Init /\ [][NextRescan]_vars

(***************************************************************************)
(* The server started on the second directory tree.                        *)
(***************************************************************************)
InitTree ==
  /\ order \in TreeWalkOrders
  /\ RouterIdle
  /\ matcherRoutes = <<>>
  /\ matcherResult = NoMatcherResult
  /\ ConvertersIdle

SpecTree == InitTree /\ [][Next]_vars

(***************************************************************************)
(* The server started on a directory tree with files whose import fails.   *)
(***************************************************************************)
InitBrokenTree ==
  /\ order \in BrokenTreeWalkOrders
  /\ RouterIdle
  /\ matcherRoutes = <<>>
  /\ matcherResult = NoMatcherResult
  /\ ConvertersIdle

SpecBrokenTree == InitBrokenTree /\ [][Next]_vars

(***************************************************************************)
(* The server started on a directory tree with middleware files and a      *)
(* route file that exports two methods.                                    *)
(***************************************************************************)
InitMiddlewareTree ==
  /\ order \in MiddlewareTreeWalkOrders
  /\ RouterIdle
  /\ matcherRoutes = <<>>
  /\ matcherResult = NoMatcherResult
  /\ ConvertersIdle

SpecMiddlewareTree == InitMiddlewareTree /\ [][Next]_vars

(***************************************************************************)
(* RouteMatcher used on its own: addRoute and match calls in any order.    *)
(* The paths added are canonical patterns: "/" followed by static,         *)
(* ":name" and "*name" segments.  The paths matched are "/" followed by    *)
(* request segments, some of them empty.                                   *)
(***************************************************************************)
SegmentChoices == {<<"a">>, <<":", "i">>, <<"*", "i", "x">>}
RequestSegmentChoices == {<<"a">>, <<"4", "2">>, <<>>}

RECURSIVE JoinPath(_)
JoinPath(segs) ==
  IF segs = <<>> THEN <<>>
  ELSE <<"/">> \o Head(segs) \o JoinPath(Tail(segs))

PathOf(segs) == IF segs = <<>> THEN <<"/">> ELSE JoinPath(segs)

MatcherPaths ==
  {PathOf(ss) : ss \in UNION {[1..n -> SegmentChoices] : n \in 0..MaxSegments}}

MatcherRequests ==
  {PathOf(ss) : ss \in UNION {[1..n -> RequestSegmentChoices] : n \in 0..MaxRequestSegments}}

MatcherKey(e) == e.path

InitMatcher ==
  /\ order = <<>>
  /\ RouterIdle
  /\ matcherRoutes = <<>>
  /\ matcherResult = NoMatcherResult
  /\ ConvertersIdle

\* RouteMatcher.addRoute(path); nothing is stored when new RegExp throws
AddRoute ==
  /\ \E path \in MatcherPaths :
       LET e == CompileRoute(path)
       IN /\ \/ Len(matcherRoutes) < MaxMatcherRoutes
             \/ \E i \in 1..Len(matcherRoutes) : matcherRoutes[i].path = path
          /\ matcherRoutes' = IF e.valid
                              THEN MapSet(matcherRoutes,
                                          [i \in 1..Len(matcherRoutes) |->
                                             MatcherKey(matcherRoutes[i])],
                                          path,
                                          [path |-> e.path, pattern |-> e.pattern,
                                           params |-> e.params])
                              ELSE matcherRoutes
  /\ UNCHANGED matcherResult
  /\ UNCHANGED routerVars
  /\ UNCHANGED converterVars

\* RouteMatcher.match(path); the routes map is only read
MatcherMatchCallMoveToFront ==
  /\ \E path \in MatcherRequests :
       LET m == MatcherMatch(matcherRoutes, 1, path)
           hit == SelectSeq(matcherRoutes, LAMBDA e : e.path = m.route)
           others == SelectSeq(matcherRoutes, LAMBDA e : e.path # m.route)
       IN /\ matcherResult' = [path |-> path, called |-> TRUE, found |-> m.found,
                               route |-> m.route, params |-> m.params]
          /\ matcherRoutes' = hit \o others
  /\ UNCHANGED routerVars
  /\ UNCHANGED converterVars

MatcherMatchCall ==
  /\ \E path \in MatcherRequests :
       LET m == MatcherMatch(matcherRoutes, 1, path)
       IN matcherResult' = [path |-> path, called |-> TRUE, found |-> m.found,
                            route |-> m.route, params |-> m.params]
  /\ UNCHANGED matcherRoutes
  /\ UNCHANGED routerVars
  /\ UNCHANGED converterVars

NextMatcher == AddRoute \/ MatcherMatchCall

SpecMatcher == InitMatcher /\ [][NextMatcher]_vars

(***************************************************************************)
(* A RouteMatcher whose routes were added before: only match is called.    *)
(***************************************************************************)
TablePaths ==
  {<<"/", "a">>, <<"/", ":", "i">>, <<"/", "a", "/", "*", "i", "x">>,
   <<"/", "*", "i", "x", "/", ":", "i">>}

\* the routes map after addRoute was called on each path of ps
RECURSIVE AddRoutes(_)
AddRoutes(ps) ==
  IF ps = <<>> THEN <<>>
  ELSE LET rest == AddRoutes(SubSeq(ps, 1, Len(ps) - 1))
           e == CompileRoute(ps[Len(ps)])
       IN MapSet(rest, [i \in 1..Len(rest) |-> MatcherKey(rest[i])], e.path,
                 [path |-> e.path, pattern |-> e.pattern, params |-> e.params])

MatcherTables ==
  {AddRoutes(ps) : ps \in UNION {[1..n -> TablePaths] : n \in 0..MaxTableRoutes}}

InitMatchOnly ==
  /\ order = <<>>
  /\ RouterIdle
  /\ matcherRoutes \in MatcherTables
  /\ matcherResult = NoMatcherResult
  /\ ConvertersIdle

NextMatchOnly == MatcherMatchCall

SpecMatchOnly == InitMatchOnly /\ [][NextMatchOnly]_vars

(***************************************************************************)
(* The converters used on their own.  A file path is up to MaxDirs         *)
(* directory names followed by a file name; parseFilePath, filePathToRoute *)
(* and convertFilePathToRoute are applied to it, and the pattern given by  *)
(* filePathToRoute is added to a fresh RouteMatcher and matched against a  *)
(* request path.                                                           *)
(***************************************************************************)
DirNames ==
  {<<"a">>, <<"a", ".", "b">>, <<"[", "i", "]">>, <<"[", ".", ".", ".", "s", "]">>,
   <<"(", "g", ")">>, <<"[", "]">>, <<"[", ".", ".", ".", "]">>}

FileNames ==
  {<<"p", "a", "g", "e", ".", "t", "s", "x">>, <<"r", "o", "u", "t", "e", ".", "t", "s">>,
   <<"i", "n", "d", "e", "x", ".", "t", "s">>, <<"p", "a", "g", "e">>,
   <<"i", "n", "d", "e", "x">>}

FilePaths ==
  {Join(ds \o <<f>>) : ds \in UNION {[1..n -> DirNames] : n \in 0..MaxDirs},
                       f \in FileNames}

ProbePaths ==
  {<<"/">>, <<"/", "a">>, <<"/", "A">>, <<"/", "a", ".", "b">>, <<"/", "a", "x", "b">>,
   <<"/", "a", "/", "a">>}

InitConverters ==
  /\ order = <<>>
  /\ RouterIdle
  /\ matcherRoutes = <<>>
  /\ matcherResult = NoMatcherResult
  /\ filePathIn \in FilePaths
  /\ applied = {}
  /\ parsedRoute = NoParsedRoute
  /\ routeOut = <<>>
  /\ routePathOut = <<>>
  /\ probe = NoProbe

ParseFilePath ==
  /\ "parseFilePath" \notin applied
  /\ applied' = applied \cup {"parseFilePath"}
  /\ parsedRoute' = parseFilePath(filePathIn)
  /\ UNCHANGED <<filePathIn, routeOut, routePathOut, probe>>
  /\ UNCHANGED routerVars
  /\ UNCHANGED matcherVars

FilePathToRoute ==
  /\ "filePathToRoute" \notin applied
  /\ applied' = applied \cup {"filePathToRoute"}
  /\ routeOut' = filePathToRoute(filePathIn)
  /\ UNCHANGED <<filePathIn, parsedRoute, routePathOut, probe>>
  /\ UNCHANGED routerVars
  /\ UNCHANGED matcherVars

ConvertFilePathToRoute ==
  /\ "convertFilePathToRoute" \notin applied
  /\ applied' = applied \cup {"convertFilePathToRoute"}
  /\ routePathOut' = convertFilePathToRoute(filePathIn)
  /\ UNCHANGED <<filePathIn, parsedRoute, routeOut, probe>>
  /\ UNCHANGED routerVars
  /\ UNCHANGED matcherVars

Converters == {"parseFilePath", "filePathToRoute", "convertFilePathToRoute"}

\* matcher = new RouteMatcher(); matcher.addRoute(routeOut); matcher.match(path),
\* once the file path is converted
ProbeMatch ==
  /\ applied = Converters
  /\ \E path \in ProbePaths \cup {routeOut} :
       LET e == CompileRoute(routeOut)
           m == MatcherMatch(<<[path |-> e.path, pattern |-> e.pattern,
                                params |-> e.params]>>, 1, path)
       IN probe' = IF e.valid
                   THEN [path |-> path, threw |-> FALSE, names |-> e.params,
                         found |-> m.found, params |-> m.params]
                   ELSE [path |-> path, threw |-> TRUE, names |-> <<>>,
                         found |-> FALSE, params |-> <<>>]
  /\ UNCHANGED <<filePathIn, applied, parsedRoute, routeOut, routePathOut>>
  /\ UNCHANGED routerVars
  /\ UNCHANGED matcherVars

NextConverters == ParseFilePath \/ FilePathToRoute \/ ConvertFilePathToRoute \/ ProbeMatch

SpecConverters == InitConverters /\ [][NextConverters]_vars

(***************************************************************************)
(* Vocabulary of the properties: the segments of a canonical pattern and   *)
(* of a request path, and the order of strings.                            *)
(***************************************************************************)
\* the segments of a pattern or request path; the root path has none
SegmentsOf(path) == IF path = <<"/">> THEN <<>> ELSE Tail(Split(path, "/"))

IsCatchAllSegment(seg) ==
  seg # <<>> /\ (seg[1] = "*" \/ StartsWith(seg, <<":", ".", ".", ".">>))

IsDynamicSegment(seg) ==
  seg # <<>> /\ seg[1] = ":" /\ ~IsCatchAllSegment(seg)

IsStaticSegment(seg) ==
  seg # <<>> /\ CountIn(seg, {":", "*"}) = 0

CountSegments(segs, P(_)) == Cardinality({k \in 1..Len(segs) : P(segs[k])})

\* the characters of the model in the order of their code units
CodeOrder ==
  <<
    "(", ")", "*", "+", ",", "-", ".", "/", "0", "1", "2", "3", "4", "5",
    "6", "7", "8", "9", ":", ";", "<", "=", ">", "?", "@", "A", "B", "C",
    "D", "E", "F", "G", "H", "I", "J", "K", "L", "M", "N", "O", "P", "Q",
    "R", "S", "T", "U", "V", "W", "X", "Y", "Z", "[", "\\", "]", "^", "_",
    "a", "b", "c", "d", "e", "f", "g", "h", "i", "j", "k", "l", "m", "n",
    "o", "p", "q", "r", "s", "t", "u", "v", "w", "x", "y", "z"
  >>

CharCode(c) == CHOOSE k \in 1..Len(CodeOrder) : CodeOrder[k] = c

\* a <= b in the lexicographic order of strings
RECURSIVE LexLeq(_, _)
LexLeq(a, b) ==
  IF a = <<>> THEN TRUE
  ELSE IF b = <<>> THEN FALSE
  ELSE IF Head(a) # Head(b) THEN CharCode(Head(a)) < CharCode(Head(b))
  ELSE LexLeq(Tail(a), Tail(b))

\* the route entries registered in an application
RouteEntries(a) == {a[i].route : i \in {k \in 1..Len(a) : a[k].kind = "route"}}

\* position of a route in the routes map
RoutePos(r) == CHOOSE i \in 1..Len(routes) : routes[i] = r

(***************************************************************************)
(* C1: match returns the route of highest priority among the routes of the *)
(* request method whose pattern accepts the path, and NotFound only when   *)
(* no such route is registered.                                            *)
(***************************************************************************)
Candidates(m) ==
  {r \in RouteEntries(m.app) : r.method = m.method /\ PathMatches(r.path, m.path)}

StaticDynamicPair(st, dy) ==
  LET a == SegmentsOf(st.path)
      b == SegmentsOf(dy.path)
  IN /\ st.method = dy.method
     /\ Len(a) = Len(b)
     /\ \A k \in 1..Len(a) : IsStaticSegment(a[k])
     /\ Cardinality({k \in 1..Len(b) : IsDynamicSegment(b[k])}) = 1
     /\ \A k \in 1..Len(b) : IsDynamicSegment(b[k]) \/ b[k] = a[k]

SpecifiedPriority(path) ==
  LET segs == SegmentsOf(path)
  IN 1000 + 10 * Len(segs)
          - 100 * CountSegments(segs, IsDynamicSegment)
          - 200 * CountSegments(segs, IsCatchAllSegment)

C3_PriorityFormula ==
  \A i \in 1..Len(routes) : routes[i].priority = SpecifiedPriority(routes[i].path)

(***************************************************************************)
(* C4: the compiled table is ordered by descending priority and, among     *)
(* routes of equal priority, by ascending pattern string.                  *)
(***************************************************************************)
C4_TableTotalOrder ==
  \A i, j \in 1..Len(sortedRoutes) :
    i < j =>
      \/ sortedRoutes[i].priority > sortedRoutes[j].priority
      \/ /\ sortedRoutes[i].priority = sortedRoutes[j].priority
         /\ LexLeq(sortedRoutes[i].path, sortedRoutes[j].path)

(***************************************************************************)
(* C5: the table holds one route per (method, pattern) key, and a key      *)
(* registered by two declarations is served by the handler of the one      *)
(* registered last.                                                        *)
(***************************************************************************)
\* the positions in the walk of the files that register a route under the key
Writers(key) ==
  {k \in 1..Len(order) :
     \E i \in 1..Len(processFile(<<>>, <<>>, order[k]).routes) :
       RouteKey(processFile(<<>>, <<>>, order[k]).routes[i]) = key}

C5_LastWriteWins ==
  /\ \A i, j \in 1..Len(routes) : i # j => RouteKey(routes[i]) # RouteKey(routes[j])
  /\ \A r, q \in RouteEntries(lastMatch.app) : RouteKey(r) = RouteKey(q) => r = q
  /\ lastMatch.res = "Found" =>
       \A k \in Writers(RouteKey(lastMatch.route)) :
         k <= CHOOSE w \in Writers(RouteKey(lastMatch.route)) :
                order[w] = lastMatch.route.filePath

\* a request served by the second of two declarations of its key
C5_Witness ==
  /\ lastMatch.res = "Found"
  /\ Cardinality(Writers(RouteKey(lastMatch.route))) = 2
  /\ \E k \in Writers(RouteKey(lastMatch.route)) :
       order[k] # lastMatch.route.filePath

(***************************************************************************)
(* C6: a request handled before the first scan() has completed is rejected *)
(* with NotReady.                                                          *)
(***************************************************************************)
C6_NotReadyBeforeCompile ==
  (lastMatch.res # "none" /\ lastMatch.cycles = 0) => lastMatch.res = "NotReady"

(***************************************************************************)
(* C7: once a scan() has completed, no step changes the routes map or the  *)
(* routes the application serves.                                          *)
(***************************************************************************)
C7_CompiledTableFrozen ==
  [][cycles > 0 => (routes' = routes /\ app' = app)]_vars

(***************************************************************************)
(* C8: a scan() over the same declarations yields the table and the match  *)
(* results a first scan() yields.                                          *)
(***************************************************************************)
RECURSIVE ScanAll(_, _, _)
ScanAll(rs, mw, k) ==
  IF k > Len(order) THEN [routes |-> rs, middleware |-> mw]
  ELSE LET r == processFile(rs, mw, order[k])
       IN ScanAll(r.routes, r.middleware, k + 1)

FirstCycleTable == SortRoutes(ScanAll(<<>>, <<>>, 1).routes)

C8_RecompileIdempotent ==
  pc = "done" =>
    /\ sortedRoutes = FirstCycleTable
    /\ \A req \in Requests :
         AppMatch(app, 1, req.method, req.path)
           = AppMatch(registerRoutes(FirstCycleTable), 1, req.method, req.path)

(***************************************************************************)
(* C9: a pattern without catch-all accepts a path iff the path has as many *)
(* segments as the pattern, each static segment is equal and each dynamic  *)
(* segment faces a non-empty segment; the value of each dynamic segment is *)
(* then bound under the name the segment declares.                         *)
(***************************************************************************)
HasCatchAll(path) ==
  \E k \in 1..Len(SegmentsOf(path)) : IsCatchAllSegment(SegmentsOf(path)[k])

SegmentsAccept(pat, req) ==
  /\ Len(pat) = Len(req)
  /\ \A k \in 1..Len(pat) :
       IF IsDynamicSegment(pat[k]) THEN req[k] # <<>> ELSE pat[k] = req[k]

C9_DynamicSegmentBinding ==
  matcherResult.called =>
    \A n \in 1..Len(matcherRoutes) :
      LET e == matcherRoutes[n]
          pat == SegmentsOf(e.path)
          req == SegmentsOf(matcherResult.path)
          dyn == {k \in 1..Len(pat) : IsDynamicSegment(pat[k])}
      IN ~HasCatchAll(e.path) =>
           /\ RegExpMatch(e.pattern, matcherResult.path).ok <=> SegmentsAccept(pat, req)
           /\ (matcherResult.found /\ matcherResult.route = e.path) =>
                /\ DOMAIN matcherResult.params = {Tail(pat[k]) : k \in dyn}
                /\ \A k \in dyn :
                     (\A k2 \in dyn : pat[k2] = pat[k] => k2 = k)
                       => matcherResult.params[Tail(pat[k])] = StrVal(req[k])

(***************************************************************************)
(* C10: a pattern that ends with a catch-all binds the one or more request *)
(* segments that remain, in order, as a list under the name of the         *)
(* catch-all, and does not accept a path that leaves it no segment.        *)
(***************************************************************************)
EndsWithCatchAll(path) ==
  LET pat == SegmentsOf(path)
  IN /\ pat # <<>>
     /\ IsCatchAllSegment(pat[Len(pat)])
     /\ \A k \in 1..(Len(pat) - 1) : IsStaticSegment(pat[k])

C10_CatchAllOneOrMore ==
  (matcherResult.found /\ EndsWithCatchAll(matcherResult.route)) =>
    LET pat == SegmentsOf(matcherResult.route)
        req == SegmentsOf(matcherResult.path)
        name == Tail(pat[Len(pat)])
        rest == SubSeq(req, Len(pat), Len(req))
    IN /\ name \in DOMAIN matcherResult.params
       /\ matcherResult.params[name].t = "list"
       /\ Len(matcherResult.params[name].v) >= 1
       /\ FilterNonEmpty(rest) # <<>>
       /\ (FilterNonEmpty(rest) = rest) => matcherResult.params[name].v = rest

(***************************************************************************)
(* Vocabulary of the properties about the converters: the tokens of a      *)
(* file path, read off the path itself.                                    *)
(***************************************************************************)
\* the tokens of the file path, the extension of the file name left out
TokensOf(fp) == Split(StripExtension(fp), "/")

\* the directory names of the file path
DirsOf(fp) == SubSeq(TokensOf(fp), 1, Len(TokensOf(fp)) - 1)

\* the file name of the file path, without extension
RoleOf(fp) == TokensOf(fp)[Len(TokensOf(fp))]

ReservedRoles == {<<"p", "a", "g", "e">>, <<"r", "o", "u", "t", "e">>,
                  <<"i", "n", "d", "e", "x">>}

IsGroupToken(t) == t # <<>> /\ t[1] = "(" /\ t[Len(t)] = ")"
IsDynamicToken(t) ==
  t # <<>> /\ t[1] = "[" /\ t[Len(t)] = "]" /\ ~StartsWith(t, <<"[", ".", ".", ".">>)
IsCatchAllToken(t) == StartsWith(t, <<"[", ".", ".", ".">>) /\ t[Len(t)] = "]"
IsStaticToken(t) == t # <<>> /\ ~IsGroupToken(t) /\ ~IsDynamicToken(t) /\ ~IsCatchAllToken(t)

\* a specification made only of static segments, under a page or route file
StaticOnly(fp) ==
  /\ DirsOf(fp) # <<>>
  /\ \A k \in 1..Len(DirsOf(fp)) : IsStaticToken(DirsOf(fp)[k])
  /\ RoleOf(fp) \in {<<"p", "a", "g", "e">>, <<"r", "o", "u", "t", "e">>}

(***************************************************************************)
(* C11: for a specification made only of static segments, the pattern is   *)
(* "/" followed by the segments joined with "/"; the matcher of that       *)
(* pattern accepts a request path exactly when its segments are equal,     *)
(* character for character, to the static segments; and a match binds no   *)
(* parameter.                                                              *)
(***************************************************************************)
C11_StaticPatternExactMatch ==
  StaticOnly(filePathIn) =>
    /\ "filePathToRoute" \in applied => routeOut = PathOf(DirsOf(filePathIn))
    /\ "convertFilePathToRoute" \in applied => routePathOut = PathOf(DirsOf(filePathIn))
    /\ probe # NoProbe =>
         /\ ~probe.threw
         /\ probe.found <=> (SegmentsOf(probe.path) = DirsOf(filePathIn))
         /\ probe.found => probe.params = <<>>

(***************************************************************************)
(* C12: group segments are left out of the pattern wherever they stand in  *)
(* the specification, the first segment included: no segment of a pattern  *)
(* is a parenthesised group, and the pattern is the one of the             *)
(* specification without its group segments.                               *)
(***************************************************************************)
RECURSIVE WithoutGroups(_)
WithoutGroups(tokens) ==
  IF tokens = <<>> THEN <<>>
  ELSE (IF IsGroupToken(Head(tokens)) THEN <<>> ELSE <<Head(tokens)>>)
       \o WithoutGroups(Tail(tokens))

HasGroupSegment(path) ==
  \E k \in 1..Len(SegmentsOf(path)) : IsGroupToken(SegmentsOf(path)[k])

\* a page or route file under directories that are static segments or groups
StaticAndGroups(fp) ==
  /\ \A k \in 1..Len(DirsOf(fp)) : IsStaticToken(DirsOf(fp)[k]) \/ IsGroupToken(DirsOf(fp)[k])
  /\ WithoutGroups(DirsOf(fp)) # <<>>
  /\ RoleOf(fp) \in {<<"p", "a", "g", "e">>, <<"r", "o", "u", "t", "e">>}

C12_GroupsElided ==
  /\ "filePathToRoute" \in applied =>
       /\ ~HasGroupSegment(routeOut)
       /\ StaticAndGroups(filePathIn) => routeOut = PathOf(WithoutGroups(DirsOf(filePathIn)))
  /\ "convertFilePathToRoute" \in applied =>
       /\ ~HasGroupSegment(routePathOut)
       /\ StaticAndGroups(filePathIn) =>
            routePathOut = PathOf(WithoutGroups(DirsOf(filePathIn)))

(***************************************************************************)
(* C13: every pattern starts with "/", has no empty segment and does not   *)
(* end with "/" unless it is the root pattern "/"; a specification with no *)
(* segment visible in the URL gives "/".                                   *)
(***************************************************************************)
WellFormedPattern(path) ==
  /\ path # <<>>
  /\ path[1] = "/"
  /\ path # <<"/">> =>
       /\ path[Len(path)] # "/"
       /\ \A k \in 1..Len(SegmentsOf(path)) : SegmentsOf(path)[k] # <<>>

NoVisibleSegment(fp) ==
  /\ WithoutGroups(DirsOf(fp)) = <<>>
  /\ RoleOf(fp) \in ReservedRoles

C13_CanonicalShape ==
  /\ "filePathToRoute" \in applied =>
       /\ WellFormedPattern(routeOut)
       /\ NoVisibleSegment(filePathIn) => routeOut = <<"/">>
  /\ "convertFilePathToRoute" \in applied =>
       /\ WellFormedPattern(routePathOut)
       /\ NoVisibleSegment(filePathIn) => routePathOut = <<"/">>

(***************************************************************************)
(* C14: the file name page, route or index at the end of a specification   *)
(* is stripped before the segments are classified and is no static segment *)
(* of the pattern; a specification that is only page or index, with or     *)
(* without extension, gives the pattern "/".                               *)
(***************************************************************************)
HasReservedSegment(path) ==
  \E k \in 1..Len(SegmentsOf(path)) : SegmentsOf(path)[k] \in ReservedRoles

OnlyRole(fp) ==
  DirsOf(fp) = <<>> /\ RoleOf(fp) \in {<<"p", "a", "g", "e">>, <<"i", "n", "d", "e", "x">>}

C14_FileRoleStripped ==
  /\ "parseFilePath" \in applied =>
       \A k \in 1..Len(parsedRoute.segments) :
         ~(parsedRoute.segments[k].type = "static"
           /\ parsedRoute.segments[k].value \in ReservedRoles)
  /\ "filePathToRoute" \in applied =>
       /\ ~HasReservedSegment(routeOut)
       /\ OnlyRole(filePathIn) => routeOut = <<"/">>
  /\ "convertFilePathToRoute" \in applied =>
       /\ ~HasReservedSegment(routePathOut)
       /\ OnlyRole(filePathIn) => routePathOut = <<"/">>

(***************************************************************************)
(* C15: a dynamic marker or a catch-all marker without a parameter name    *)
(* ("[]", "[...]") makes the parse fail: no segment with an empty          *)
(* parameter name is produced, and no parameter of a route path has an     *)
(* empty name.                                                             *)
(***************************************************************************)
HasEmptyMarker(fp) ==
  \E k \in 1..Len(DirsOf(fp)) :
    DirsOf(fp)[k] \in {<<"[", "]">>, <<"[", ".", ".", ".", "]">>}

C15_NoEmptyParamName ==
  /\ "parseFilePath" \in applied =>
       /\ \A k \in 1..Len(parsedRoute.segments) :
            "param" \in DOMAIN parsedRoute.segments[k] =>
              parsedRoute.segments[k].param # <<>>
       /\ \A k \in 1..Len(parsedRoute.params) : parsedRoute.params[k] # <<>>
  /\ "convertFilePathToRoute" \in applied =>
       \A k \in 1..Len(extractParams(routePathOut)) : extractParams(routePathOut)[k] # <<>>

(***************************************************************************)
(* C16: a specification in which two segments declare the same parameter   *)
(* name makes the parse fail: the parameter names of a parsed or converted *)
(* route hold no name twice.                                               *)
(***************************************************************************)
\* no name occurs twice in the list (the empty names of C15 left aside)
NoDuplicate(l) == \A j, k \in 1..Len(l) : (j # k /\ l[j] # <<>>) => l[j] # l[k]

C16_NoDuplicateParamName ==
  /\ "parseFilePath" \in applied => NoDuplicate(parsedRoute.params)
  /\ "convertFilePathToRoute" \in applied => NoDuplicate(extractParams(routePathOut))

(***************************************************************************)
(* Vocabulary of the properties about middleware: the bindings registered  *)
(* by the walk before a position, in the order of the walk.                *)
(***************************************************************************)
IsMiddlewareFile(f) ==
  /\ getFileExtension(FileTable[f].rel) \in Extensions
  /\ getFileName(FileTable[f].rel) \in {<<"m", "i", "d", "d", "l", "e", "w", "a", "r", "e">>,
                                        <<"_", "m", "i", "d", "d", "l", "e", "w", "a", "r", "e">>}
  /\ "default" \in FileTable[f].exports

\* the pathPrefix a middleware file is registered under
PrefixOf(f) == convertFilePathToRoute(FileTable[f].rel)

\* position in the walk of the file that wrote the route
WalkPos(r) == CHOOSE k \in 1..Len(order) : order[k] = r.filePath

\* the middleware files found before position k, in the order of the walk
BindingsBefore(k) ==
  SelectSeq(SubSeq(order, 1, k - 1), IsMiddlewareFile)

Elems(l) == {l[i] : i \in 1..Len(l)}

AppliesTo(r) == LET Applies(f) == StartsWith(r.path, PrefixOf(f))
                IN SelectSeq(BindingsBefore(WalkPos(r)), Applies)

C18_RegistrationOrder ==
  \A i \in 1..Len(routes) : routes[i].middleware = AppliesTo(routes[i])

(***************************************************************************)
(* C19: a match never returns a route registered for another method than   *)
(* the method of the request; when the only routes whose pattern accepts   *)
(* the path are registered for other methods, the result is NotFound.      *)
(***************************************************************************)
\* the registered routes whose pattern accepts the path of the request, of any method
PathCandidates(m) == {r \in RouteEntries(m.app) : PathMatches(r.path, m.path)}

C19_MethodMismatchNotFound ==
  lastMatch.res # "none" =>
    /\ lastMatch.res = "Found" => lastMatch.route.method = lastMatch.method
    /\ (\A r \in PathCandidates(lastMatch) : r.method # lastMatch.method) =>
         lastMatch.res = "NotFound"

\* a request whose path is accepted by routes of another method only
C19_Witness ==
  /\ lastMatch.res = "NotFound"
  /\ PathCandidates(lastMatch) # {}
  /\ \A r \in PathCandidates(lastMatch) : r.method # lastMatch.method

(***************************************************************************)
(* C20: when a route with a catch-all segment and a route without one, of  *)
(* the same method, both accept the path of a request, the route without   *)
(* the catch-all has the strictly higher priority and the catch-all route  *)
(* is not the one selected.                                                *)
(***************************************************************************)
C20_CatchAllLoses ==
  lastMatch.res # "none" =>
    \A c, n \in Candidates(lastMatch) :
      (HasCatchAll(c.path) /\ ~HasCatchAll(n.path)) =>
        /\ n.priority > c.priority
        /\ lastMatch.route # c

(***************************************************************************)
(* C21: in every successful match the keys of params are the parameter     *)
(* names of the route; the value of a dynamic parameter is one string and  *)
(* the value of the catch-all parameter is a list of strings, also when    *)
(* the name of the dynamic parameter is a prefix of the catch-all name.    *)
(***************************************************************************)
DynamicNames(path) ==
  {Tail(SegmentsOf(path)[k]) :
     k \in {j \in 1..Len(SegmentsOf(path)) : IsDynamicSegment(SegmentsOf(path)[j])}}

CatchAllNames(path) ==
  {Tail(SegmentsOf(path)[k]) :
     k \in {j \in 1..Len(SegmentsOf(path)) : IsCatchAllSegment(SegmentsOf(path)[j])}}

C21_ParamValueKinds ==
  matcherResult.found =>
    /\ DOMAIN matcherResult.params
         = DynamicNames(matcherResult.route) \cup CatchAllNames(matcherResult.route)
    /\ \A n \in DOMAIN matcherResult.params :
         /\ n \in DynamicNames(matcherResult.route) => matcherResult.params[n].t = "string"
         /\ n \in CatchAllNames(matcherResult.route) => matcherResult.params[n].t = "list"

(***************************************************************************)
(* C22: the parameter names of a specification are the names declared by   *)
(* its dynamic and catch-all segments, one per segment, from left to       *)
(* right.  The markers without a name are those of C15.                    *)
(***************************************************************************)
\* the name a dynamic or catch-all token declares
DeclaredName(t) ==
  IF IsCatchAllToken(t) THEN SubSeq(t, 5, Len(t) - 1) ELSE SubSeq(t, 2, Len(t) - 1)

RECURSIVE DeclaredNames(_)
DeclaredNames(tokens) ==
  IF tokens = <<>> THEN <<>>
  ELSE (IF IsDynamicToken(Head(tokens)) \/ IsCatchAllToken(Head(tokens))
        THEN <<DeclaredName(Head(tokens))>> ELSE <<>>)
       \o DeclaredNames(Tail(tokens))

C22_ParamNamesInOrder ==
  /\ "parseFilePath" \in applied =>
       parsedRoute.params = DeclaredNames(DirsOf(filePathIn))
  /\ ("convertFilePathToRoute" \in applied /\ ~HasEmptyMarker(filePathIn)) =>
       extractParams(routePathOut) = DeclaredNames(DirsOf(filePathIn))
  /\ (probe # NoProbe /\ ~probe.threw /\ ~HasEmptyMarker(filePathIn)) =>
       probe.names = DeclaredNames(DirsOf(filePathIn))

(***************************************************************************)
(* C23: a declaration whose processing fails is the only one rejected: at  *)
(* every point of the compile cycle the routes and middleware maps are     *)
(* those the declarations processed so far give without the failed ones,   *)
(* so the declarations before and after a failed one are registered and    *)
(* the failed one changes nothing.                                         *)
(***************************************************************************)
RECURSIVE ScanSeq(_, _, _)
ScanSeq(rs, mw, files) ==
  IF files = <<>> THEN [routes |-> rs, middleware |-> mw]
  ELSE LET r == processFile(rs, mw, Head(files))
       IN ScanSeq(r.routes, r.middleware, Tail(files))

\* the files processed so far by the compile cycle
Processed == IF pc = "idle" THEN <<>> ELSE SubSeq(order, 1, idx - 1)

ImportSucceeds(f) == f \notin ThrowingImports

C23_FailureIsolated ==
  LET good == ScanSeq(<<>>, <<>>, SelectSeq(Processed, ImportSucceeds))
  IN /\ routes = good.routes
     /\ middleware = good.middleware

\* a finished compile cycle with a failed declaration between two registered ones
C23_Witness ==
  /\ pc = "done"
  /\ \E j, k, l \in 1..Len(order) :
       /\ j < k /\ k < l
       /\ order[k] \in ThrowingImports
       /\ \E a, b \in 1..Len(routes) :
            routes[a].filePath = order[j] /\ routes[b].filePath = order[l]

(***************************************************************************)
(* C24: a request served while scan() runs never sees a partly built       *)
(* table: the routes the application serves, and those any request was     *)
(* served from, are none (before the scan has completed) or all the routes *)
(* of the new table.                                                       *)
(***************************************************************************)
CompleteOrEmpty(a) ==
  \/ RouteEntries(a) = {}
  \/ RouteEntries(a) = Elems(FirstCycleTable)

C24_NoPartialTable ==
  /\ CompleteOrEmpty(app)
  /\ CompleteOrEmpty(lastMatch.app)

\* a request served while the routes map holds a part of the table, for a path
\* that a route already in the map accepts
C24_Witness ==
  /\ pc = "scanning"
  /\ routes # <<>>
  /\ Len(routes) < Len(FirstCycleTable)
  /\ lastMatch.res = "NotFound"
  /\ lastMatch.app = app
  /\ \E i \in 1..Len(routes) :
       /\ routes[i].method = lastMatch.method
       /\ PathMatches(routes[i].path, lastMatch.path)

(***************************************************************************)
(* C25: match is read-only: a match call leaves the routes of the matcher  *)
(* (their order, patterns and parameter names) as they were, and returns   *)
(* what a match of the same path on the untouched table returns, whatever  *)
(* calls were made before.                                                 *)
(***************************************************************************)
C25_MatchReadOnly ==
  [][/\ matcherRoutes' = matcherRoutes
     /\ LET m == MatcherMatch(matcherRoutes, 1, matcherResult'.path)
        IN /\ matcherResult'.found = m.found
           /\ matcherResult'.route = m.route
           /\ matcherResult'.params = m.params]_vars

\* a successful match on a table of two routes that both accept the path
C25_Witness ==
  /\ matcherResult.found
  /\ Len(matcherRoutes) = 2
  /\ \A n \in 1..2 : RegExpMatch(matcherRoutes[n].pattern, matcherResult.path).ok
  /\ matcherResult.route = matcherRoutes[1].path

(***************************************************************************)
(* C26: the two converters agree: for every file path                      *)
(* convertFilePathToRoute and filePathToRoute return the same pattern.     *)
(***************************************************************************)
C26_ConvertersAgree ==
  {"filePathToRoute", "convertFilePathToRoute"} \subseteq applied =>
    routePathOut = routeOut

(***************************************************************************)
(* C27: after scan() the middleware of every route is the concatenation of *)
(* the bindings of the final middleware map whose prefix is a prefix of    *)
(* the pattern of the route, whether the walk found the binding before or  *)
(* after the route.                                                        *)
(***************************************************************************)
C27_DiscoveryOrderIndependent ==
  pc = "done" =>
    \A i \in 1..Len(routes) :
      routes[i].middleware = getMiddlewareForPath(middleware, routes[i].path)

(***************************************************************************)
(* The canonical pattern of the directory a file is in: its directory      *)
(* names, groups left out, [name] as :name and [...name] as *name.         *)
(***************************************************************************)
CanonicalSegment(t) ==
  IF IsCatchAllToken(t) THEN <<"*">> \o DeclaredName(t)
  ELSE IF IsDynamicToken(t) THEN <<":">> \o DeclaredName(t)
  ELSE t

DirPattern(fp) ==
  LET dirs == WithoutGroups(DirsOf(fp))
  IN PathOf([k \in 1..Len(dirs) |-> CanonicalSegment(dirs[k])])

(***************************************************************************)
(* C28: a middleware file in directory D is registered under the pattern   *)
(* of D, its own file name left out, so that every route of a file in D or *)
(* below that is built afterwards carries it.                              *)
(***************************************************************************)
C28_MiddlewarePrefixIsDirectory ==
  \A k \in 1..Len(Processed) :
    LET f == Processed[k]
    IN (IsMiddlewareFile(f) /\ ImportSucceeds(f)) =>
         /\ \E n \in 1..Len(middleware) :
              /\ middleware[n].path = DirPattern(FileTable[f].rel)
              /\ f \in Elems(middleware[n].list)
         /\ \A i \in 1..Len(routes) :
              (/\ WalkPos(routes[i]) > k
               /\ StartsWith(DirPattern(FileTable[routes[i].filePath].rel),
                             DirPattern(FileTable[f].rel)))
                => f \in Elems(routes[i].middleware)

(***************************************************************************)
(* C29: for a request that a route handler serves after scan(), the        *)
(* middleware that runs is the middleware list of that route, each entry   *)
(* once and in order; the middleware registered for another route (the     *)
(* same path under another method, another pattern that accepts the path)  *)
(* does not run.                                                           *)
(***************************************************************************)
C29_OnlyServingRouteMiddleware ==
  (lastMatch.res = "Found" /\ lastMatch.cycles >= 1) =>
    lastMatch.ran = lastMatch.route.middleware

(***************************************************************************)
(* C30: every ParsedRoute is consistent: isDynamic holds exactly when      *)
(* params is not empty, exactly when a segment is dynamic or wildcard;     *)
(* isWildcard holds exactly when a segment is wildcard, and then isDynamic *)
(* holds; params has one entry per dynamic or wildcard segment, the param  *)
(* of that segment; group and static segments carry no param.              *)
(***************************************************************************)
ParamSegments(p) ==
  SelectSeq(p.segments, LAMBDA seg : seg.type \in {"dynamic", "wildcard"})

C30_ParsedRouteConsistent ==
  "parseFilePath" \in applied =>
    LET p == parsedRoute
    IN /\ p.isDynamic <=> p.params # <<>>
       /\ p.isDynamic <=> ParamSegments(p) # <<>>
       /\ p.isWildcard <=> \E k \in 1..Len(p.segments) : p.segments[k].type = "wildcard"
       /\ p.isWildcard => p.isDynamic
       /\ Len(p.params) = Len(ParamSegments(p))
       /\ \A k \in 1..Len(p.params) : p.params[k] = ParamSegments(p)[k].param
       /\ \A k \in 1..Len(p.segments) :
            /\ p.segments[k].type \in {"group", "static", "dynamic", "wildcard"}
            /\ p.segments[k].type \in {"group", "static"}
                 <=> "param" \notin DOMAIN p.segments[k]

\* a parsed path with a dynamic segment, a wildcard segment and two params
C30_Witness ==
  /\ "parseFilePath" \in applied
  /\ parsedRoute.isWildcard
  /\ \E k \in 1..Len(parsedRoute.segments) : parsedRoute.segments[k].type = "dynamic"
  /\ Len(parsedRoute.params) = 2

====
